---- MODULE Spec2Model ----
(***************************************************************************)
(* Model of the "Encryption-at-rest" settings page                         *)
(* (src/src/pages/account/crypto.rs): the "crypto-at-rest" form schema,    *)
(* the domain mapper between EncryptionType and the form data, and the     *)
(* ManageCrypto component (initial GET, Save button, POST action).         *)
(*                                                                         *)
(* Two specifications share the form state:                                *)
(*   MapperSpec - the mapper applied to a form instance under arbitrary    *)
(*                set calls (the pure functions of the page);              *)
(*   Spec       - the ManageCrypto component as an event-driven machine.   *)
(***************************************************************************)
EXTENDS Integers, Sequences, FiniteSets, TLC

VARIABLES
    values,     \* FormData.values: field name -> stored string (a partial map)
    errors,     \* FormData.errors: the fields carrying a validation error
    result,     \* outcome of the last to_encryption_params call, NotRun after a write
    phase,      \* MapperSpec: what has been applied to the instance so far
    lastFlat,   \* MapperSpec: the EncryptionType last flattened into the instance
    op,         \* the operation last applied to the instance: "new", "from", "set", "to"
    passes,     \* MapperSpec: to_encryption_params calls since the last write
    lastResp,   \* the HTTP response last handled: the request and its outcome
    view,       \* what the Transition shows: "building", "skeleton", "form", "empty"
    pending,    \* the `pending` signal
    inflight,   \* POST /api/crypto requests sent and not yet answered
    alert,      \* the alert last set
    location,   \* "crypto", or "login" after the redirect
    submitted,  \* a POST of this form instance has succeeded
    crashed,    \* a panic (unwrap on None / Err) has aborted the page
    lquery,     \* AccountList: the "page" parameter of the query map
    lvalue,     \* AccountList: the value of the `principals` resource
    lfetch,     \* AccountList: the load of `principals` in progress, if any
    lpending,   \* AccountList: the `pending` signal
    lview,      \* AccountList: "building" until the view exists, then "mounted"
    llog        \* AccountList: the answers received by the load last started

listVars == <<lquery, lvalue, lfetch, lpending, lview, llog>>

cryptoVars == <<values, errors, result, phase, lastFlat, op, passes, lastResp, view,
                pending, inflight, alert, location, submitted, crashed>>

vars == <<cryptoVars, listVars>>

(***************************************************************************)
(* Bounds                                                                  *)
(***************************************************************************)
MaxText == 1

MaxInFlight == 2

MaxPasses == 2

MaxPage == 4

MaxTotal == 4

F64_DIGITS == 1

MaxNames == 2

\* Free text a user or a server can supply: the empty string and MaxText others.
TextStrings == {""} \cup {"t" \o ToString(i) : i \in 1..MaxText}

\* Strings a caller of set may store in any field.
AnyStrings == TextStrings \cup {"pgp", "smime", "aes128", "aes256"}

(***************************************************************************)
(* Domain types                                                            *)
(***************************************************************************)
Algorithm == {"Aes128", "Aes256"}

EncryptionMethod == {"PGP", "SMIME"}

Disabled == [tag |-> "Disabled"]

EncryptionType ==
    {Disabled} \cup [tag : EncryptionMethod, algo : Algorithm, certs : TextStrings]

None == [some |-> FALSE]

Some(x) == [some |-> TRUE, v |-> x]

EncryptionMethod_as_str(m) == IF m = "PGP" THEN "pgp" ELSE "smime"

EncryptionMethod_from_str_Unknown(s) ==
    CASE s = "pgp" -> Some("PGP")
      [] s = "smime" -> Some("SMIME")
      [] OTHER -> Some("PGP")

EncryptionMethod_from_str(s) ==
    CASE s = "pgp" -> Some("PGP")
      [] s = "smime" -> Some("SMIME")
      [] OTHER -> None

Algorithm_as_str(a) == IF a = "Aes128" THEN "aes128" ELSE "aes256"

Algorithm_from_str_Swapped(s) ==
    CASE s = "aes128" -> Some("Aes256")
      [] s = "aes256" -> Some("Aes128")
      [] OTHER -> None

Algorithm_from_str(s) ==
    CASE s = "aes128" -> Some("Aes128")
      [] s = "aes256" -> Some("Aes256")
      [] OTHER -> None

(***************************************************************************)
(* The "crypto-at-rest" schema (Builder::build_crypto)                     *)
(***************************************************************************)
Fields == <<"type", "algo", "certs", "password">>

FieldNames == {Fields[i] : i \in 1..Len(Fields)}

METHODS == {"pgp", "smime", ""}

ALGOS == {"aes128", "aes256"}

\* .default(..): the fields that have one, with its value.
Defaults == [f \in {"type", "algo"} |-> IF f = "type" THEN "" ELSE "aes256"]

Validators_NoPassword(f) == IF f = "certs" THEN {"Required"} ELSE {}

Validators_NoCerts(f) == IF f = "password" THEN {"Required"} ELSE {}

\* .input_check([], [..]): the validators of a field.
Validators(f) == IF f \in {"certs", "password"} THEN {"Required"} ELSE {}

HasDisplayIf_OnlyAlgo(f) == f = "algo"

HasDisplayIf_AlsoPassword(f) == f \in {"algo", "certs", "password"}

\* .display_if_eq("type", [pgp, smime]): the fields that carry the condition ...
HasDisplayIf(f) == f \in {"algo", "certs"}

DisplayIfValues_OnlyPgp == {EncryptionMethod_as_str("PGP")}

\* ... and the values of "type" that make them visible.
DisplayIfValues == {EncryptionMethod_as_str(m) : m \in EncryptionMethod}

(***************************************************************************)
(* Form Data Instance                                                      *)
(***************************************************************************)
\* build_form("crypto-at-rest"): a fresh instance holds the defaults only.
build_form == Defaults

set(vals, f, s) ==
    [g \in (DOMAIN vals) \cup {f} |-> IF g = f THEN s ELSE vals[g]]

value_String(vals, f) == IF f \in DOMAIN vals THEN Some(vals[f]) ELSE None

value_EncryptionMethod(vals, f) ==
    IF f \in DOMAIN vals THEN EncryptionMethod_from_str(vals[f]) ELSE None

value_Algorithm(vals, f) ==
    IF f \in DOMAIN vals THEN Algorithm_from_str(vals[f]) ELSE None

is_visible(vals, f) ==
    HasDisplayIf(f) => ("type" \in DOMAIN vals /\ vals["type"] \in DisplayIfValues)

\* Required fails iff the value is absent or empty.
RequiredFails(vals, f) == f \notin DOMAIN vals \/ vals[f] = ""

\* The error mapping a validation pass leaves behind.
ValidationErrors(vals) ==
    {f \in FieldNames :
        /\ is_visible(vals, f)
        /\ "Required" \in Validators(f)
        /\ RequiredFails(vals, f)}

validate_form(vals) == ValidationErrors(vals) = {}

(***************************************************************************)
(* Domain mapper                                                           *)
(***************************************************************************)
from_encryption_params_Swapped(vals, params) ==
    IF params.tag = "Disabled"
    THEN set(vals, "type", "")
    ELSE set(set(set(vals, "type", EncryptionMethod_as_str("PGP")),
                 "algo", Algorithm_as_str(params.algo)),
             "certs", params.certs)

from_encryption_params_ResetsPassword(vals, params) ==
    IF params.tag = "Disabled"
    THEN set(set(vals, "type", ""), "password", "")
    ELSE set(set(set(set(vals, "type", EncryptionMethod_as_str(params.tag)),
                     "algo", Algorithm_as_str(params.algo)),
                 "certs", params.certs),
             "password", "")

from_encryption_params_ClearsAll(vals, params) ==
    IF params.tag = "Disabled"
    THEN set(set(set(vals, "type", ""), "algo", ""), "certs", "")
    ELSE set(set(set(vals, "type", EncryptionMethod_as_str(params.tag)),
                 "algo", Algorithm_as_str(params.algo)),
             "certs", params.certs)

from_encryption_params(vals, params) ==
    IF params.tag = "Disabled"
    THEN set(vals, "type", "")
    ELSE set(set(set(vals, "type", EncryptionMethod_as_str(params.tag)),
                 "algo", Algorithm_as_str(params.algo)),
             "certs", params.certs)

NotRun == [kind |-> "NotRun"]

RNone == [kind |-> "None"]

RPanic == [kind |-> "Panic"]

RSome(x) == [kind |-> "Some", v |-> x]

\* The match of to_encryption_params once the form has validated.
BuildParams(vals) ==
    LET m == value_EncryptionMethod(vals, "type")
        a == value_Algorithm(vals, "algo")
        c == value_String(vals, "certs")
    IN  IF ~m.some THEN RSome(Disabled)
        ELSE IF ~a.some \/ ~c.some THEN RPanic
        ELSE RSome([tag |-> m.v, algo |-> a.v, certs |-> c.v])

to_encryption_params_NoValidate(vals) == BuildParams(vals)

to_encryption_params(vals) ==
    IF validate_form(vals) THEN BuildParams(vals) ELSE RNone

(***************************************************************************)
(* Initial state: the signals and the form instance as ManageCrypto        *)
(* creates them, before the view is built.                                 *)
(***************************************************************************)
\* The query map without a "page" parameter, and with one.
NoQuery == [has |-> FALSE, s |-> ""]

Query(t) == [has |-> TRUE, s |-> t]

\* The resource before its first value; no load in progress; a load waiting
\* for the name list.
NotLoaded == [st |-> "None"]

Idle == [st |-> "idle"]

LoadingNames == [st |-> "names"]

\* AccountList as it is created, for a given query: the resource starts loading.
ListInitWith(q) ==
    /\ lquery = q
    /\ lvalue = NotLoaded
    /\ lfetch = LoadingNames
    /\ lpending = FALSE
    /\ lview = "building"
    /\ llog = <<>>

CryptoInit ==
    /\ values = build_form
    /\ errors = {}
    /\ result = NotRun
    /\ phase = "fresh"
    /\ lastFlat = Disabled
    /\ op = "new"
    /\ passes = 0
    /\ lastResp = [req |-> "none", r |-> "none"]
    /\ view = "building"
    /\ pending = FALSE
    /\ inflight = <<>>
    /\ alert = "none"
    /\ location = "crypto"
    /\ submitted = FALSE
    /\ crashed = FALSE

Init == CryptoInit /\ ListInitWith(NoQuery)

\* Bookkeeping of what has been applied to the instance:
\*   "fresh"  - nothing;
\*   "flat"   - one from_encryption_params on the fresh instance, nothing else;
\*   "flatpw" - as "flat", then only non-empty values stored in "password";
\*   "other"  - anything else.
PhaseAfterFrom(p) == IF p = "fresh" THEN "flat" ELSE "other"

PhaseAfterSet(p, f, s) ==
    IF p \in {"flat", "flatpw"} /\ f = "password" /\ s # "" THEN "flatpw" ELSE "other"

uiVars == <<lastResp, view, pending, inflight, alert, location, submitted>>

(***************************************************************************)
(* MapperSpec: the mapper and set applied to one form instance             *)
(***************************************************************************)
MFrom(params) ==
    /\ ~crashed
    /\ values' = from_encryption_params(values, params)
    /\ phase' = PhaseAfterFrom(phase)
    /\ lastFlat' = params
    /\ result' = NotRun
    /\ op' = "from"
    /\ passes' = 0
    /\ UNCHANGED listVars
    /\ UNCHANGED <<errors, crashed, uiVars>>

MSet(f, s) ==
    /\ ~crashed
    /\ values' = set(values, f, s)
    /\ phase' = PhaseAfterSet(phase, f, s)
    /\ result' = NotRun
    /\ op' = "set"
    /\ passes' = 0
    /\ UNCHANGED listVars
    /\ UNCHANGED <<errors, lastFlat, crashed, uiVars>>

MTo_Accumulate ==
    /\ ~crashed
    /\ passes < MaxPasses
    /\ errors' = errors \cup ValidationErrors(values)
    /\ result' = to_encryption_params(values)
    /\ crashed' = (result' = RPanic)
    /\ op' = "to"
    /\ passes' = passes + 1
    /\ UNCHANGED listVars
    /\ UNCHANGED <<values, phase, lastFlat, uiVars>>

\* to_encryption_params on the instance: the validation pass replaces the
\* error mapping, the fields are only read.
MTo ==
    /\ ~crashed
    /\ passes < MaxPasses
    /\ errors' = ValidationErrors(values)
    /\ result' = to_encryption_params(values)
    /\ crashed' = (result' = RPanic)
    /\ op' = "to"
    /\ passes' = passes + 1
    /\ UNCHANGED listVars
    /\ UNCHANGED <<values, phase, lastFlat, uiVars>>

MapperNext ==
    \/ \E params \in EncryptionType : MFrom(params)
    \/ \E f \in FieldNames, s \in AnyStrings : MSet(f, s)
    \/ MTo

MapperSpec == Init /\ [][MapperNext]_vars

(***************************************************************************)
(* Spec: the ManageCrypto component                                        *)
(***************************************************************************)
HttpErrors == {"Unauthorized", "Other"}

Ok(x) == [ok |-> TRUE, v |-> x]

Err(e) == [ok |-> FALSE, err |-> e]

GetResults == {Ok(p) : p \in EncryptionType} \cup {Err(e) : e \in HttpErrors}

PostResults == {Ok("unit")} \cup {Err(e) : e \in HttpErrors}

\* with_body(changes) returns a Result that the action unwraps.
BodyResults == {"ok", "err"}

Mounted == location = "crypto" /\ ~crashed

\* The outcome of a response as the match arms tell them apart.
RespKind(r) == IF r.ok THEN "Ok" ELSE r.err

\* The Transition is built: the resource is loading, so it shows the Skeleton
\* fallback and reports pending.
Render ==
    /\ Mounted
    /\ view = "building"
    /\ view' = "skeleton"
    /\ pending' = TRUE
    /\ UNCHANGED listVars
    /\ UNCHANGED <<values, errors, result, phase, lastFlat, op, passes, lastResp,
                   inflight, alert, location, submitted, crashed>>

FetchComplete_AlertOnUnauthorized(r) ==
    /\ Mounted
    /\ view = "skeleton"
    /\ pending' = FALSE
    /\ IF r.ok
       THEN /\ values' = from_encryption_params(values, r.v)
            /\ phase' = PhaseAfterFrom(phase)
            /\ lastFlat' = r.v
            /\ result' = NotRun
            /\ op' = "from"
            /\ view' = "form"
            /\ UNCHANGED <<alert, location>>
       ELSE /\ view' = "empty"
            /\ alert' = "error"
            /\ UNCHANGED <<location, values, phase, lastFlat, result, op>>
    /\ lastResp' = [req |-> "GET", r |-> RespKind(r)]
    /\ UNCHANGED listVars
    /\ UNCHANGED <<errors, passes, inflight, submitted, crashed>>

\* fetch_crypto resolves: the match inside the Transition runs and the
\* Transition reports not pending.
FetchComplete(r) ==
    /\ Mounted
    /\ view = "skeleton"
    /\ pending' = FALSE
    /\ IF r.ok
       THEN /\ values' = from_encryption_params(values, r.v)
            /\ phase' = PhaseAfterFrom(phase)
            /\ lastFlat' = r.v
            /\ result' = NotRun
            /\ op' = "from"
            /\ view' = "form"
            /\ UNCHANGED <<alert, location>>
       ELSE /\ view' = "empty"
            /\ IF r.err = "Unauthorized"
               THEN location' = "login" /\ UNCHANGED alert
               ELSE alert' = "error" /\ UNCHANGED location
            /\ UNCHANGED <<values, phase, lastFlat, result, op>>
    /\ lastResp' = [req |-> "GET", r |-> RespKind(r)]
    /\ UNCHANGED listVars
    /\ UNCHANGED <<errors, passes, inflight, submitted, crashed>>

FieldsRendered_Always == TRUE

\* The form items exist only in the Some(Ok(crypto)) arm.
FieldsRendered == view = "form"

has_no_crypto_OnlyPgp == value_EncryptionMethod(values, "type") # Some("PGP")

\* The memo that hides the Algorithm and Certificates items.
has_no_crypto == ~value_EncryptionMethod(values, "type").some

\* What the input bound to a field lets the user store in it.
Choices(f) ==
    CASE f = "type" -> METHODS
      [] f = "algo" -> ALGOS
      [] OTHER -> TextStrings

\* The user changes one field through its FormElement.
Edit(f, s) ==
    /\ Mounted
    /\ FieldsRendered
    /\ f \in {"algo", "certs"} => ~has_no_crypto
    /\ s \in Choices(f)
    /\ values' = set(values, f, s)
    /\ phase' = PhaseAfterSet(phase, f, s)
    /\ result' = NotRun
    /\ op' = "set"
    /\ UNCHANGED listVars
    /\ UNCHANGED <<errors, lastFlat, passes, lastResp, view, pending, inflight,
                   alert, location, submitted, crashed>>

ButtonDisabled_Never == FALSE

\* disabled=pending on the Save changes button.
ButtonDisabled == pending

\* A click on "Save changes": to_encryption_params, and when it yields a
\* value the save_changes action is dispatched and runs up to its await.
ClickSave(body) ==
    /\ Mounted
    /\ view # "building"
    /\ ~ButtonDisabled
    /\ errors' = ValidationErrors(values)
    /\ result' = to_encryption_params(values)
    /\ LET pw == value_String(values, "password") IN
       CASE result'.kind = "None" ->
                UNCHANGED <<pending, inflight, crashed>>
         [] result'.kind = "Panic" \/ ~pw.some ->
                crashed' = TRUE /\ UNCHANGED <<pending, inflight>>
         [] OTHER ->
                /\ pending' = TRUE
                /\ IF body = "ok"
                   THEN /\ Len(inflight) < MaxInFlight
                        /\ inflight' = Append(inflight,
                               [changes |-> result'.v, password |-> pw.v])
                        /\ UNCHANGED crashed
                   ELSE crashed' = TRUE /\ UNCHANGED inflight
    /\ op' = "to"
    /\ UNCHANGED listVars
    /\ UNCHANGED <<values, phase, lastFlat, passes, lastResp, view, alert, location,
                   submitted>>

RemoveAt(q, i) == [j \in 1..(Len(q) - 1) |-> IF j < i THEN q[j] ELSE q[j + 1]]

AlertFor_Generic(changes, r) ==
    IF r.ok
    THEN IF changes = Disabled THEN "disabled" ELSE "enabled"
    ELSE "error"

AlertFor_FromForm(changes, r) ==
    IF r.ok
    THEN IF has_no_crypto THEN "disabled" ELSE "enabled"
    ELSE IF r.err = "Unauthorized" THEN "incorrect_password" ELSE "error"

AlertFor(changes, r) ==
    IF r.ok
    THEN IF changes = Disabled THEN "disabled" ELSE "enabled"
    ELSE IF r.err = "Unauthorized" THEN "incorrect_password" ELSE "error"

SaveComplete_NewInstance(i, r) ==
    /\ Mounted
    /\ i \in 1..Len(inflight)
    /\ inflight' = RemoveAt(inflight, i)
    /\ pending' = FALSE
    /\ alert' = AlertFor(inflight[i].changes, r)
    /\ submitted' = (submitted \/ r.ok)
    /\ values' = IF r.ok THEN build_form ELSE values
    /\ lastResp' = [req |-> "POST", r |-> RespKind(r)]
    /\ UNCHANGED listVars
    /\ UNCHANGED <<errors, result, phase, lastFlat, op, passes, view, location,
                   crashed>>

\* The POST of request i is answered: the rest of the save_changes future.
SaveComplete(i, r) ==
    /\ Mounted
    /\ i \in 1..Len(inflight)
    /\ inflight' = RemoveAt(inflight, i)
    /\ pending' = FALSE
    /\ alert' = AlertFor(inflight[i].changes, r)
    /\ submitted' = (submitted \/ r.ok)
    /\ lastResp' = [req |-> "POST", r |-> RespKind(r)]
    /\ UNCHANGED listVars
    /\ UNCHANGED <<values, errors, result, phase, lastFlat, op, passes, view,
                   location, crashed>>

Next ==
    \/ Render
    \/ \E r \in GetResults : FetchComplete(r)
    \/ \E f \in FieldNames, s \in TextStrings \cup METHODS \cup ALGOS : Edit(f, s)
    \/ \E body \in BodyResults : ClickSave(body)
    \/ \E i \in 1..MaxInFlight, r \in PostResults : SaveComplete(i, r)

Spec == Init /\ [][Next]_vars

(***************************************************************************)
(* ListSpec: the AccountList component                                     *)
(* (src/src/pages/directory/accounts/list.rs)                              *)
(***************************************************************************)
PAGE_SIZE == 1

\* The numbers are kept at a reduced width: the largest u64 is MaxPage
\* (2^64 - 1 in the build) and the significand of an f64 has F64_DIGITS bits
\* (53 in the build).
U64_MAX == MaxPage

\* The strings the "page" parameter can hold: numerals, one of them too large
\* for a u64, and text that does not parse.
PageStrings == {ToString(n) : n \in 0..(U64_MAX + 1)} \cup {"", "x"}

Queries == {NoQuery} \cup {Query(t) : t \in PageStrings}

\* page.parse::<u64>().ok()
parse_u64(t) ==
    IF \E n \in 0..U64_MAX : ToString(n) = t
    THEN Some(CHOOSE n \in 0..U64_MAX : ToString(n) = t)
    ELSE None

\* page(): the parsed "page" parameter, 1 when absent or unparsable.
pageOf(q) ==
    IF q.has /\ parse_u64(q.s).some THEN parse_u64(q.s).v ELSE 1

page == pageOf(lquery)

Names == {"a", "b"}

NameLists == UNION {[1..n -> Names] : n \in 0..MaxNames}

\* The principal the server holds under a name.
Principal(n) == [name |-> n]

\* Answers to the name-list request and to a per-name request.
NamesResults ==
    {Ok([items |-> l, total |-> t]) : l \in NameLists, t \in 0..MaxTotal}
        \cup {Err(e) : e \in HttpErrors}

PrincipalResults(n) == {Ok(Principal(n))} \cup {Err(e) : e \in HttpErrors}

\* The Transition is built while the resource loads: it reports pending.
LRender ==
    /\ lview = "building"
    /\ lview' = "mounted"
    /\ lpending' = (lfetch # Idle)
    /\ UNCHANGED <<lquery, lvalue, lfetch, llog, cryptoVars>>

\* The query changes (a link, the page selector, the address bar); when the
\* page it denotes changes the resource loads again, dropping a load in
\* progress, and the Transition reports pending.
LNavigate(q) ==
    /\ lview = "mounted"
    /\ q # lquery
    /\ lquery' = q
    /\ IF pageOf(q) # page
       THEN lfetch' = LoadingNames /\ lpending' = TRUE /\ llog' = <<>>
       ELSE UNCHANGED <<lfetch, lpending, llog>>
    /\ UNCHANGED <<lvalue, lview, cryptoVars>>

\* The load ends with result r: the resource takes it and the Transition
\* reports not pending.
Resolve(r) ==
    /\ lvalue' = r
    /\ lfetch' = Idle
    /\ lpending' = FALSE

\* The name-list request is answered.
LNamesResponse(r) ==
    /\ lview = "mounted"
    /\ lfetch = LoadingNames
    /\ llog' = Append(llog, r)
    /\ IF ~r.ok
       THEN Resolve(r)
       ELSE IF r.v.items = <<>>
       THEN Resolve(Ok([items |-> <<>>, total |-> r.v.total]))
       ELSE /\ lfetch' = [st |-> "items", names |-> r.v.items, items |-> <<>>,
                          total |-> r.v.total]
            /\ UNCHANGED <<lvalue, lpending>>
    /\ UNCHANGED <<lquery, lview, cryptoVars>>

LPrincipalResponse_PartialOnError(r) ==
    /\ lview = "mounted"
    /\ lfetch.st = "items"
    /\ r \in PrincipalResults(lfetch.names[Len(lfetch.items) + 1])
    /\ llog' = Append(llog, r)
    /\ IF ~r.ok
       THEN Resolve(Ok([items |-> lfetch.items, total |-> lfetch.total]))
       ELSE LET got == Append(lfetch.items, r.v) IN
            IF Len(got) = Len(lfetch.names)
            THEN Resolve(Ok([items |-> got, total |-> lfetch.total]))
            ELSE /\ lfetch' = [lfetch EXCEPT !.items = got]
                 /\ UNCHANGED <<lvalue, lpending>>
    /\ UNCHANGED <<lquery, lview, cryptoVars>>

\* The request for the next name is answered.
LPrincipalResponse(r) ==
    /\ lview = "mounted"
    /\ lfetch.st = "items"
    /\ r \in PrincipalResults(lfetch.names[Len(lfetch.items) + 1])
    /\ llog' = Append(llog, r)
    /\ IF ~r.ok
       THEN Resolve(r)
       ELSE LET got == Append(lfetch.items, r.v) IN
            IF Len(got) = Len(lfetch.names)
            THEN Resolve(Ok([items |-> got, total |-> lfetch.total]))
            ELSE /\ lfetch' = [lfetch EXCEPT !.items = got]
                 /\ UNCHANGED <<lvalue, lpending>>
    /\ UNCHANGED <<lquery, lview, cryptoVars>>

\* total of the loaded list, 0 while there is none or it failed to load.
total_items == IF lvalue = NotLoaded \/ ~lvalue.ok THEN 0 ELSE lvalue.v.total

RECURSIVE Pow2(_)
Pow2(k) == IF k = 0 THEN 1 ELSE 2 * Pow2(k - 1)

\* n as f64: n itself while it fits the significand, otherwise the nearest
\* multiple of the spacing at n's magnitude, a tie going to the even
\* significand.
u64_as_f64(n) ==
    IF n < Pow2(F64_DIGITS)
    THEN n
    ELSE LET e == CHOOSE k \in 0..n : Pow2(k) <= n /\ n < Pow2(k + 1)
             ulp == Pow2(e - F64_DIGITS + 1)
             q == n \div ulp
             r == n % ulp
         IN  IF 2 * r < ulp \/ (2 * r = ulp /\ q % 2 = 0)
             THEN q * ulp
             ELSE (q + 1) * ulp

\* (x / y).ceil() for whole x and y; the quotient by PAGE_SIZE = 1 is exact.
f64_div_ceil(x, y) == IF x % y = 0 THEN x \div y ELSE x \div y + 1

\* x as u64: the cast saturates.
f64_as_u64(x) == IF x > U64_MAX THEN U64_MAX ELSE x

\* (total_items as f64 / PAGE_SIZE as f64).ceil() as u64
total_pages ==
    f64_as_u64(f64_div_ceil(u64_as_f64(total_items), u64_as_f64(PAGE_SIZE)))

hide_more_link_OffByOne == page > total_pages \/ lpending

hide_more_link == page >= total_pages \/ lpending

\* The Suspense around the Next link shows its (empty) fallback while the
\* resource it reads is loading.
SuspenseFallback == lfetch # Idle

\* The Next link is an active link (otherwise an invisible button).
NextShown == lview = "mounted" /\ ~SuspenseFallback /\ ~hide_more_link

\* page() + 1 in u64, as a release build computes it.
NextHref == (page + 1) % (U64_MAX + 1)

PrevActive_FromOne == lview = "mounted" /\ page >= 1

\* The Prev link is an active link (otherwise a disabled button).
PrevActive == lview = "mounted" /\ page > 1

\* page() - 1 in u64, as a release build computes it.
PrevHref == (page + U64_MAX) % (U64_MAX + 1)

ListInit == CryptoInit /\ \E q \in Queries : ListInitWith(q)

ListNext ==
    \/ LRender
    \/ \E q \in Queries : LNavigate(q)
    \/ \E r \in NamesResults : LNamesResponse(r)
    \/ \E r \in UNION {PrincipalResults(n) : n \in Names} : LPrincipalResponse(r)

ListSpec == ListInit /\ [][ListNext]_vars

(***************************************************************************)
(* Properties of the mapper (checked under MapperSpec)                     *)
(***************************************************************************)
Ran == result # NotRun

\* C1 (as stated): flattening any EncryptionType, the empty certs included,
\* into a fresh instance, storing a non-empty password and unflattening
\* returns Some of the value that was flattened.
C1_RoundTrip ==
    (phase = "flatpw" /\ Ran) => result = RSome(lastFlat)

\* C1 (amended): the round trip returns Some(V) for Disabled and for every
\* PGP / SMIME value whose certs string is not empty.
C1_RoundTripNonEmptyCerts ==
    (phase = "flatpw" /\ Ran /\ (lastFlat.tag = "Disabled" \/ lastFlat.certs # ""))
        => result = RSome(lastFlat)

C1_Witness ==
    /\ phase = "flatpw"
    /\ lastFlat.tag = "SMIME"
    /\ lastFlat.algo = "Aes128"
    /\ result = RSome(lastFlat)

\* C3: when the validation pass found no error and "type" holds a string other
\* than "pgp" / "smime", to_encryption_params returns Some(Disabled), whatever
\* "algo" and "certs" hold.
C3_UnknownTypeIsDisabled ==
    (Ran /\ errors = {} /\ values["type"] \notin {"pgp", "smime"})
        => result = RSome(Disabled)

C3_Witness ==
    /\ result = RSome(Disabled)
    /\ values["type"] = "t1"
    /\ values["algo"] = "smime"
    /\ "certs" \in DOMAIN values
    /\ values["certs"] = "pgp"

\* C4 (as stated): flattening Disabled into a fresh instance and unflattening
\* with no set in between returns Disabled.
C4_DisabledScenario ==
    (phase = "flat" /\ lastFlat = Disabled /\ Ran) => result = RSome(Disabled)

\* C4 (amended): with no set in between the result is None and the validation
\* pass records an error on "password" alone; Disabled comes back once a
\* non-empty password has been stored.
C4_DisabledNeedsPassword ==
    /\ (phase = "flat" /\ lastFlat = Disabled /\ Ran)
           => (result = RNone /\ errors = {"password"})
    /\ (phase = "flatpw" /\ lastFlat = Disabled /\ Ran)
           => result = RSome(Disabled)

C4_Witness ==
    /\ phase = "flat"
    /\ lastFlat = Disabled
    /\ result = RNone
    /\ "password" \in errors

\* C5: to_encryption_params never panics: for every content of the fields it
\* returns None or Some(value).
C5_NeverPanics == result # RPanic

\* C10: after a validation pass over a form whose "type" is neither "pgp" nor
\* "smime", neither "algo" nor "certs" carries an error, and the form is valid
\* exactly when "password" is filled in.
C10_HiddenFieldsUnconstrained ==
    (Ran /\ result # RPanic /\ values["type"] \notin {"pgp", "smime"})
        => /\ "algo" \notin errors
           /\ "certs" \notin errors
           /\ (errors = {}) = ~RequiredFails(values, "password")

C10_Witness ==
    /\ Ran
    /\ values["type"] = ""
    /\ values["algo"] = "t1"
    /\ "certs" \in DOMAIN values
    /\ values["certs"] = ""
    /\ errors = {}

\* "Left empty": the field holds no value or the empty string.
Empty(f) == f \notin DOMAIN values \/ values[f] = ""

\* C11: after a validation pass over a form whose "type" is "pgp" or "smime"
\* and whose "certs" is empty, the form is invalid (the result is None), an
\* error is recorded on "certs" and none on "type".
C11_EmptyCertsRejected ==
    (Ran /\ values["type"] \in {"pgp", "smime"} /\ Empty("certs"))
        => /\ result = RNone
           /\ "certs" \in errors
           /\ "type" \notin errors

C11_Witness ==
    /\ Ran
    /\ values["type"] = "smime"
    /\ Empty("certs")
    /\ ~Empty("password")
    /\ errors = {"certs"}

\* C12: after a validation pass "password" carries an error if and only if
\* it is absent or empty, whatever the other fields hold.
C12_PasswordRequired ==
    Ran => (("password" \in errors) = Empty("password"))

C12_Witness ==
    /\ Ran
    /\ "password" \in DOMAIN values
    /\ values["password"] = ""
    /\ values["type"] = "pgp"
    /\ ~Empty("certs")
    /\ errors = {"password"}

\* C13: the validation pass succeeds (the result is not None) exactly when
\* it recorded no error, and with "type" "pgp" or "smime" and both "certs" and
\* "password" empty the one pass records an error on each of the two.
C13_NoShortCircuit ==
    Ran => /\ (result # RNone) = (errors = {})
           /\ (values["type"] \in {"pgp", "smime"} /\ Empty("certs") /\ Empty("password"))
                  => {"certs", "password"} \subseteq errors

C13_Witness ==
    /\ Ran
    /\ values["type"] = "pgp"
    /\ Empty("certs")
    /\ Empty("password")
    /\ errors = {"certs", "password"}

\* C14: a second validation pass with no write in between returns what the
\* first returned and leaves the same errors, and after any pass an error
\* stands only on a field that is visible and empty: an error of an earlier
\* pass is gone once its field is filled in or hidden.
C14_ValidateIdempotent ==
    [][(passes' > passes) =>
          /\ (passes >= 1) => (errors' = errors /\ result' = result)
          /\ \A f \in errors' :
                /\ f \in {"certs", "password"}
                /\ Empty(f)
                /\ (f = "certs") => values["type"] \in {"pgp", "smime"}
      ]_vars

C14_Witness ==
    /\ passes = 2
    /\ values["type"] = "pgp"
    /\ Empty("certs")
    /\ errors = {"certs"}
    /\ result = RNone

\* C15: from_encryption_params(Disabled) stores the empty string in "type"
\* and leaves every other field, and the errors, as they were.
C15_DisabledWritesTypeOnly ==
    [][(op' = "from" /\ lastFlat' = Disabled) =>
          /\ DOMAIN values' = DOMAIN values
          /\ values'["type"] = ""
          /\ \A f \in (DOMAIN values) \ {"type"} : values'[f] = values[f]
          /\ errors' = errors
      ]_vars

C15_Witness ==
    /\ op = "from"
    /\ lastFlat = Disabled
    /\ phase = "other"
    /\ values["type"] = ""
    /\ values["algo"] = "aes128"
    /\ "certs" \in DOMAIN values
    /\ values["certs"] = "t1"
    /\ errors = {"password"}

\* C20: from_str accepts exactly the images of as_str ("pgp", "smime" and
\* "aes128", "aes256") among the strings a field can hold, the empty string
\* included, and decoding what from_encryption_params stored gives back the
\* variant that was encoded.
C20_DecodeRoundTrip ==
    /\ \A f \in DOMAIN values :
          /\ EncryptionMethod_from_str(values[f]).some = (values[f] \in {"pgp", "smime"})
          /\ Algorithm_from_str(values[f]).some = (values[f] \in {"aes128", "aes256"})
    /\ (op = "from" /\ lastFlat # Disabled)
          => /\ value_EncryptionMethod(values, "type") = Some(lastFlat.tag)
             /\ value_Algorithm(values, "algo") = Some(lastFlat.algo)

C20_Witness ==
    /\ op = "from"
    /\ lastFlat # Disabled
    /\ lastFlat.tag = "SMIME"
    /\ lastFlat.algo = "Aes128"
    /\ "password" \in DOMAIN values
    /\ values["password"] = "aes256"

\* C21: from_encryption_params leaves "password" and the errors as they
\* were; for PGP and SMIME it stores the encoded method, algorithm and certs
\* in "type", "algo" and "certs" and nothing else; applied a second time with
\* the same value it changes nothing.
C21_FromFrame ==
    [][(op' = "from") =>
          /\ ("password" \in DOMAIN values') = ("password" \in DOMAIN values)
          /\ ("password" \in DOMAIN values) => values'["password"] = values["password"]
          /\ errors' = errors
          /\ (lastFlat'.tag # "Disabled") =>
                /\ DOMAIN values' = (DOMAIN values) \cup {"type", "algo", "certs"}
                /\ values'["type"] = (IF lastFlat'.tag = "PGP" THEN "pgp" ELSE "smime")
                /\ values'["algo"] = (IF lastFlat'.algo = "Aes128" THEN "aes128" ELSE "aes256")
                /\ values'["certs"] = lastFlat'.certs
          /\ (op = "from" /\ lastFlat' = lastFlat) => values' = values
      ]_vars

C21_Witness ==
    /\ op = "from"
    /\ phase = "other"
    /\ lastFlat # Disabled
    /\ lastFlat.tag = "SMIME"
    /\ values["certs"] = lastFlat.certs
    /\ "password" \in DOMAIN values
    /\ values["password"] = "t1"
    /\ errors = {"certs"}

(***************************************************************************)
(* Properties of the component (checked under Spec)                        *)
(***************************************************************************)
Loading == view \in {"building", "skeleton"}

\* C2: a form that fails validation makes to_encryption_params return None,
\* no step taken from such a form starts a POST, and a POST starts only in a
\* step where to_encryption_params returned Some.
C2_InvalidBlocksSubmit ==
    [][/\ (ValidationErrors(values) # {}) => Len(inflight') <= Len(inflight)
       /\ (Len(inflight') > Len(inflight)) => result'.kind = "Some"
       /\ (result' # NotRun /\ ValidationErrors(values') # {}) => result' = RNone
      ]_vars

C2_Witness ==
    /\ submitted
    /\ inflight = <<>>
    /\ result = RNone
    /\ errors = {"certs", "password"}

\* C6: at most one POST is outstanding, and while one is the pending signal
\* is true, so the Save button is disabled.
C6_OneInFlight ==
    /\ Len(inflight) <= 1
    /\ inflight # <<>> => pending

C6_Witness ==
    /\ submitted
    /\ Len(inflight) = 1
    /\ pending

\* C7: once the fetch has resolved, pending is false whenever no POST is in
\* flight, whichever way the previous submits ended.
C7_PendingFalseWhenIdle ==
    (~Loading /\ inflight = <<>>) => ~pending

C9_NoSubmitWhileLoading ==
    Loading => /\ values = build_form
               /\ ValidationErrors(values) # {}
               /\ inflight = <<>>
               /\ ~crashed

C9_Witness ==
    /\ view = "skeleton"
    /\ ButtonDisabled
    /\ inflight = <<>>

\* A step that handles an HTTP response: the GET's or a POST's.
RespStep ==
    \/ view = "skeleton" /\ view' # "skeleton"
    \/ Len(inflight') < Len(inflight)

\* C16 (as stated): every Unauthorized response, of the GET or of a POST,
\* redirects to /login and sets no alert.
C16_UnauthorizedRedirects ==
    [][(RespStep /\ lastResp'.r = "Unauthorized")
          => (location' = "login" /\ alert' = alert)]_vars

\* C16 (amended): an Unauthorized answer to the GET redirects to /login,
\* sets no alert and leaves the form unrendered; an Unauthorized answer to a
\* POST sets the "Incorrect password" alert and does not redirect.
C16_UnauthorizedOnGetRedirects ==
    [][(RespStep /\ lastResp'.r = "Unauthorized") =>
          IF lastResp'.req = "GET"
          THEN location' = "login" /\ alert' = alert /\ view' = "empty"
          ELSE location' = location /\ alert' = "incorrect_password"
      ]_vars

C16_Witness ==
    /\ lastResp = [req |-> "GET", r |-> "Unauthorized"]
    /\ location = "login"
    /\ alert = "none"
    /\ view = "empty"

\* C17: an Unauthorized answer to a POST sets the "Incorrect password" alert,
\* leaves every field as it was and pending false with the form still
\* rendered; any other POST error sets the generic alert.
C17_IncorrectPassword ==
    [][(Len(inflight') < Len(inflight)) =>
          /\ (lastResp'.r = "Unauthorized") =>
                /\ alert' = "incorrect_password"
                /\ values' = values
                /\ ~pending'
                /\ view' = "form"
                /\ location' = "crypto"
          /\ (lastResp'.r = "Other") => alert' = "error"
      ]_vars

C17_Witness ==
    /\ alert = "incorrect_password"
    /\ lastResp = [req |-> "POST", r |-> "Unauthorized"]
    /\ Len(inflight) = 1
    /\ inflight[1].password = "t1"

\* C22: in every form state the memo hides the Algorithm and Certificates
\* items exactly when the schema's display condition on "algo" and "certs" is
\* false, "type" and "password" are never hidden by either, and after a click
\* an error stands only on a field that is displayed.
C22_VisibilityAgrees ==
    /\ \A f \in {"algo", "certs"} : has_no_crypto = ~is_visible(values, f)
    /\ \A f \in {"type", "password"} : is_visible(values, f)
    /\ (op = "to") => (\A f \in errors : f \in {"algo", "certs"} => ~has_no_crypto)

C22_Witness ==
    /\ view = "form"
    /\ op = "to"
    /\ ~has_no_crypto
    /\ values["type"] = "smime"
    /\ errors = {"certs"}

\* C23: when a POST in flight is answered with success, the alert is
\* "disabled" if the value that request submitted is Disabled and "enabled"
\* otherwise, whatever "type" holds in the form by then.
C23_AlertMatchesSubmitted ==
    [][\A i \in 1..Len(inflight) :
          (inflight' = RemoveAt(inflight, i) /\ lastResp' = [req |-> "POST", r |-> "Ok"]) =>
              alert' = (IF inflight[i].changes.tag = "Disabled"
                        THEN "disabled" ELSE "enabled")
      ]_vars

\* A request that submitted PGP is still in flight and the form has since
\* been switched to no encryption.
C23_Witness ==
    /\ Len(inflight) = 1
    /\ inflight[1].changes.tag = "PGP"
    /\ op = "set"
    /\ has_no_crypto
    /\ values["type"] = ""
    /\ ~crashed

(***************************************************************************)
(* Properties of the account list (checked under ListSpec)                 *)
(***************************************************************************)
\* The page count of a total: the least n with n * PAGE_SIZE >= total.
PageCount(t) ==
    CHOOSE n \in 0..t :
        /\ n * PAGE_SIZE >= t
        /\ \A m \in 0..t : m * PAGE_SIZE >= t => n <= m

\* C18: once the view exists the Next link is hidden if and only if the
\* current page is at or above the page count of the loaded total or a fetch
\* is pending; it is shown exactly when the page is below the page count and
\* no fetch is pending.
C18_NextHiddenIff ==
    lview = "mounted" =>
        /\ ~NextShown = (page >= PageCount(total_items) \/ lpending)
        /\ NextShown = (page < PageCount(total_items) /\ ~lpending)

C18_Witness ==
    /\ NextShown
    /\ page = 1
    /\ total_items = 2
    /\ lquery = Query("x")

\* C19: the Prev link is an active link, to page - 1, exactly when the "page"
\* parameter is a numeral above 1, whatever the resource holds; for page 3
\* with a loaded total of 1 the Next link is hidden and the Prev link shown.
C19_PrevActiveIff ==
    lview = "mounted" =>
        /\ PrevActive = (lquery.has /\ \E n \in 2..MaxPage : lquery.s = ToString(n))
        /\ PrevActive => (PrevHref >= 1 /\ PrevHref + 1 = page)
        /\ (page = 3 /\ lfetch = Idle /\ total_items = 1 /\ PAGE_SIZE = 1)
               => (~NextShown /\ PrevActive /\ PrevHref = 2)

C19_Witness ==
    /\ lquery = Query("3")
    /\ lfetch = Idle
    /\ lvalue = Ok([items |-> <<>>, total |-> 1])
    /\ PrevActive
    /\ ~NextShown

\* C24: a finished load is Ok only if the name-list answer and every
\* per-name answer were Ok, its items are then the principals of the
\* returned names in the returned order and its total is the name list's;
\* otherwise it is the first error answered and nothing was asked after it;
\* and while a load is in progress the resource's value is not touched.
C24_AllOrNothing ==
    /\ [](( lfetch = Idle /\ lvalue # NotLoaded) =>
            /\ Len(llog) >= 1
            /\ lvalue.ok = (\A i \in 1..Len(llog) : llog[i].ok)
            /\ lvalue.ok =>
                  /\ lvalue.v.total = llog[1].v.total
                  /\ Len(lvalue.v.items) = Len(llog[1].v.items)
                  /\ Len(llog) = 1 + Len(llog[1].v.items)
                  /\ \A i \in 1..Len(lvalue.v.items) :
                        /\ lvalue.v.items[i] = llog[i + 1].v
                        /\ lvalue.v.items[i] = Principal(llog[1].v.items[i])
            /\ ~lvalue.ok =>
                  /\ lvalue = llog[Len(llog)]
                  /\ \A i \in 1..(Len(llog) - 1) : llog[i].ok)
    /\ [][lfetch' # Idle => lvalue' = lvalue]_vars

C24_Witness ==
    /\ lfetch = Idle
    /\ Len(llog) = 3
    /\ lvalue = Ok([items |-> <<Principal("b"), Principal("a")>>, total |-> 1])

\* C25: once the view exists the Next link is hidden while the listing is
\* not loaded or failed to load, whatever the page, 0 included; when it is
\* shown, page + 1 does not overflow and is at most the page count of the
\* loaded total; when the Prev link is active, page - 1 does not underflow.
C25_LinksInRange ==
    lview = "mounted" =>
        /\ (lvalue = NotLoaded \/ ~lvalue.ok) => ~NextShown
        /\ NextShown =>
              /\ page + 1 <= U64_MAX
              /\ NextHref = page + 1
              /\ NextHref <= PageCount(total_items)
        /\ PrevActive => (page >= 1 /\ PrevHref = page - 1)

====
